---------------------------- MODULE Spec2Model ----------------------------
(***************************************************************************)
(* The dispatch feed of moltbot-news (the App and NewsList components of   *)
(* the frontend entry point): the fetched news snapshot is filtered by the *)
(* Pacific "today" cutoff, sorted by dispatch date, cut into pages of      *)
(* newsPerPage items, grouped by day, and each day gets four spotlight     *)
(* slots resolved from manual overrides and an algorithmic score queue.    *)
(*                                                                         *)
(* Strings are sequences of one-character strings.  A JavaScript number is *)
(* a one-element tuple <<v>>; NaN is the empty tuple.  Timestamps of       *)
(* calendar dates are counted in days (Date.getTime() divided by the       *)
(* milliseconds of a day), which keeps every comparison the code makes.    *)
(***************************************************************************)
EXTENDS Integers, Sequences, FiniteSets, TLC

VARIABLES
    news,                \* useState<NewsItem[]>: the fetched snapshot
    spotlightOverrides,  \* useState<SpotlightOverride[]>
    currentPage,         \* useState(newsPage)
    todayParts,          \* the clock: Intl parts of "now" in America/Los_Angeles
    loaded,              \* the mount-time fetchContent() has completed
    rendered,            \* page number -> what <NewsList> rendered for it, for
                         \* the pages shown since the fetch
    call,                \* the last call of a helper function checked on its
                         \* own: its name, its arguments, what it returned
    total,               \* the prop total of <Pagination>: totalNewsPages
    skipHistoryPush,     \* React.useRef(true): skipHistoryPush.current
    historyEntries,      \* window.history: the newsPage of the state of every entry
    historyIndex,        \* window.history: the position of the current entry
    lastEvent,           \* the event handled last, the page before it, the
                         \* number of entries the page-change effect pushed
    error,               \* useState<string | null>(null): an error is set
    lastFetch,           \* the last fetchContent(): the queries that carried
                         \* an error, the news it stored, whether error was
                         \* set before
    processEnv,          \* generate-admin.js: process.env
    fs,                  \* generate-admin.js: .env.admin, admin.template.html
                         \* and public/admin.html on the disk
    pc,                  \* generate-admin.js: the position of the script
    html,                \* generate-admin.js: let html
    exitCode             \* generate-admin.js: the status the process ended with

\* the state of the pagination and of the browser history
navVars == <<total, skipHistoryPush, historyEntries, historyIndex, lastEvent>>

\* the state of the error panel
fetchVars == <<error, lastFetch>>

\* the state of a run of generate-admin.js
scriptVars == <<processEnv, fs, pc, html, exitCode>>

\* the state of the feed
feedVars == <<news, spotlightOverrides, todayParts, loaded, rendered>>

vars == <<news, spotlightOverrides, currentPage, todayParts, loaded, rendered, call,
          navVars, fetchVars, scriptVars>>

----------------------------------------------------------------------------
(* Bounds of the snapshots *)

MaxNews == 2         \* rows of chosen shape in a snapshot

FillerCount == 19    \* rows of today's dispatch that may precede them

MaxOverrides == 2    \* rows of spotlight_overrides

----------------------------------------------------------------------------
(* Objects: a missing (undefined or null) property is a key outside the domain *)

\* obj.key || dflt
Get(obj, key, dflt) == IF key \in DOMAIN obj THEN obj[key] ELSE dflt

\* item.date || '': the date column may be null
DateOf(item) == Get(item, "date", <<>>)

----------------------------------------------------------------------------
(* Strings *)

Digits == <<"0", "1", "2", "3", "4", "5", "6", "7", "8", "9">>

IsDigit(c) == \E i \in 1..Len(Digits) : Digits[i] = c

DigitVal(c) ==
    CASE c = "0" -> 0 [] c = "1" -> 1 [] c = "2" -> 2 [] c = "3" -> 3 [] c = "4" -> 4
      [] c = "5" -> 5 [] c = "6" -> 6 [] c = "7" -> 7 [] c = "8" -> 8 [] c = "9" -> 9

IsSpace(c) == c = " "

TwoDigits(i) == <<Digits[(i \div 10) + 1], Digits[(i % 10) + 1]>>

\* String.prototype.toLowerCase on the letters the inputs use
LowerChar(c) ==
    CASE c = "A" -> "a"
      [] c = "B" -> "b"
      [] c = "W" -> "w"
      [] c = "X" -> "x"
      [] OTHER -> c

toLowerCase(s) == [i \in 1..Len(s) |-> LowerChar(s[i])]

RECURSIVE TrimStart(_)
TrimStart(s) ==
    IF s # <<>> /\ IsSpace(Head(s)) THEN TrimStart(Tail(s)) ELSE s

RECURSIVE TrimEnd(_)
TrimEnd(s) ==
    IF s # <<>> /\ IsSpace(s[Len(s)]) THEN TrimEnd(SubSeq(s, 1, Len(s) - 1)) ELSE s

trim(s) == TrimEnd(TrimStart(s))

\* String.prototype.indexOf, 1-based; 0 when pat does not occur
RECURSIVE IndexFrom(_, _, _)
IndexFrom(s, pat, i) ==
    IF i + Len(pat) - 1 > Len(s) THEN 0
    ELSE IF SubSeq(s, i, i + Len(pat) - 1) = pat THEN i
    ELSE IndexFrom(s, pat, i + 1)

IndexOf(s, pat) == IndexFrom(s, pat, 1)

includes(s, pat) == IndexOf(s, pat) # 0

\* s without the occurrence of pat at index i (0: pat does not occur)
RemoveAt(s, pat, i) ==
    IF i = 0 \/ pat = <<>> THEN s
    ELSE SubSeq(s, 1, i - 1) \o SubSeq(s, i + Len(pat), Len(s))

\* String.prototype.replace(pat, '') with a string pattern: the first occurrence only
RemoveFirst(s, pat) == RemoveAt(s, pat, IndexOf(s, pat))

\* String.prototype.split(sep) for a one-character separator; SplitAt cuts
\* at the first separator, found at index i
RECURSIVE split(_, _)
RECURSIVE SplitAt(_, _, _)
SplitAt(s, sep, i) ==
    IF i = 0 THEN <<s>>
    ELSE <<SubSeq(s, 1, i - 1)>> \o split(SubSeq(s, i + 1, Len(s)), sep)

split(s, sep) == SplitAt(s, sep, IndexOf(s, <<sep>>))

----------------------------------------------------------------------------
(* Numbers *)

NaN == <<>>

Num(v) == <<v>>

isNaN(x) == x = NaN

RECURSIVE DigitsValue(_)
DigitsValue(s) ==
    IF s = <<>> THEN 0 ELSE 10 * DigitsValue(SubSeq(s, 1, Len(s) - 1)) + DigitVal(s[Len(s)])

\* the numeric value of a string without surrounding white space
NumberTrimmed(t) ==
    IF t = <<>> THEN Num(0)
    ELSE IF \A i \in 1..Len(t) : IsDigit(t[i]) THEN Num(DigitsValue(t))
    ELSE NaN

\* Number(string): surrounding white space is dropped, the empty string is 0,
\* a run of decimal digits is its value, anything else is NaN
Number(s) == NumberTrimmed(trim(s))

\* a - b
Minus(a, b) == IF isNaN(a) \/ isNaN(b) THEN NaN ELSE Num(a[1] - b[1])

\* a <= b
LessEq(a, b) == ~isNaN(a) /\ ~isNaN(b) /\ a[1] <= b[1]

----------------------------------------------------------------------------
(* Dates *)

IsLeap(y) == (y % 4 = 0 /\ y % 100 # 0) \/ y % 400 = 0

LeapsBefore(y) == ((y - 1) \div 4) - ((y - 1) \div 100) + ((y - 1) \div 400)

DaysBeforeYear(y) == 365 * (y - 1970) + LeapsBefore(y) - LeapsBefore(1970)

DaysBeforeMonth(y, mi) ==
    LET cum == <<0, 31, 59, 90, 120, 151, 181, 212, 243, 273, 304, 334>>
    IN  cum[mi + 1] + (IF mi >= 2 /\ IsLeap(y) THEN 1 ELSE 0)

\* new Date(y, monthIndex, day).getTime(), in days: a month index outside 0..11
\* and a day outside the month carry over, a year 0..99 means 1900 + year
DateTime(y, mi, d) ==
    LET yy  == IF 0 <= y /\ y <= 99 THEN 1900 + y ELSE y
        yr  == yy + (mi \div 12)
        mon == mi % 12
    IN  DaysBeforeYear(yr) + DaysBeforeMonth(yr, mon) + (d - 1)

\* parts[i] ?? 0 on the array of numbers: only a missing element becomes 0
PartOr0(parts, i) == IF i <= Len(parts) THEN parts[i] ELSE Num(0)

\* isNaN(y) || y === 0 ? 0 : new Date(y, m - 1, day).getTime(): a Date built
\* from a NaN component is invalid and its time is NaN
TimeOfMDY(m, day, y) ==
    IF isNaN(y) \/ y = Num(0) THEN Num(0)
    ELSE IF isNaN(m) \/ isNaN(day) THEN NaN
    ELSE Num(DateTime(y[1], m[1] - 1, day[1]))

\* const [m, day, y] = [parts[0] ?? 0, parts[1] ?? 0, parts[2] ?? 0]
TimeOfParts(parts) == TimeOfMDY(PartOr0(parts, 1), PartOr0(parts, 2), PartOr0(parts, 3))

\* strs.map(Number)
MapNumber(strs) == [i \in 1..Len(strs) |-> Number(strs[i])]

\* Parse MM-DD-YYYY -> timestamp
parseMDY(d) == TimeOfParts(MapNumber(split(d, "-")))

Today == <<"0", "3", "-", "0", "1", "-", "2", "0", "2", "6">>

Yesterday == <<"0", "2", "-", "2", "8", "-", "2", "0", "2", "6">>

Tomorrow == <<"0", "3", "-", "0", "2", "-", "2", "0", "2", "6">>

\* item.date || 'unknown'
unknown == <<"u", "n", "k", "n", "o", "w", "n">>

\* malformed dates: the month is no number, the year is no number
BadMonth == <<"x", "-", "2", "8", "-", "2", "0", "2", "6">>

BadYear == <<"0", "2", "-", "2", "8", "-", "x">>

\* parseMDY of the strings the snapshots use, evaluated once
ParsedDates ==
    [d \in {Today, Yesterday, Tomorrow, BadMonth, BadYear, unknown, <<>>} |-> parseMDY(d)]

\* parseMDY(d), read from ParsedDates
Parsed(d) == ParsedDates[d]

\* "Today" as a timestamp in Pacific time: the formatted parts of the clock,
\* joined as `${m}-${d}-${y}` and parsed by parseMDY
getTodayPacific(parts) ==
    parseMDY(parts.month \o <<"-">> \o parts.day \o <<"-">> \o parts.year)

----------------------------------------------------------------------------
(* Verification and score *)

HttpsPrefix == <<"h", "t", "t", "p", "s", ":", "/", "/">>

HttpPrefix == <<"h", "t", "t", "p", ":", "/", "/">>

WwwPrefix == <<"w", "w", "w", ".">>

\* import whitelist from './src/whitelist.json': rows of "Source Name", "Website URL"
whitelist ==
    << [SourceName |-> <<" ", "A", "b">>,
        WebsiteURL |-> <<"h", "t", "t", "p", "s", ":", "/", "/", "w", "w", "w", ".", "a", "b", ".", "c">>] >>

\* String(w["Source Name"] || "").toLowerCase().trim()
whitelistName(w) == trim(toLowerCase(Get(w, "SourceName", <<>>)))

\* String(w["Website URL"] || "").toLowerCase().replace('https://', '')
\*     .replace('http://', '').replace('www.', '')
whitelistUrl(w) ==
    RemoveFirst(RemoveFirst(RemoveFirst(toLowerCase(Get(w, "WebsiteURL", <<>>)), HttpsPrefix),
                            HttpPrefix),
                WwwPrefix)

\* the two strings of every whitelist row (they do not depend on the item)
KeysOf(rows) == [i \in 1..Len(rows) |->
                    [name |-> whitelistName(rows[i]), url |-> whitelistUrl(rows[i])]]

WhitelistKeys == KeysOf(whitelist)

\* the callback of whitelist.some(...), on the two strings of the row w,
\* the item's lower-cased trimmed source and its lower-cased url
Matches(w, articleSource, url) ==
    \/ w.name = articleSource
    \/ w.url # <<>> /\ includes(url, w.url)

\* String(item.source || "").toLowerCase().trim()
articleSourceOf(item) == trim(toLowerCase(Get(item, "source", <<>>)))

\* item.url?.toLowerCase(): an item without url matches no Website URL
lowerUrlOf(item) == IF "url" \in DOMAIN item THEN toLowerCase(item.url) ELSE <<>>

\* rows.some(...) on the item, for the two strings of every row
SomeMatches(keys, item) ==
    \E i \in 1..Len(keys) : Matches(keys[i], articleSourceOf(item), lowerUrlOf(item))

\* whitelist.some(...) on item.source and item.url
Verifies(source, url) == SomeMatches(WhitelistKeys, [source |-> source, url |-> url])

\* Verifies on the sources and urls the snapshots use, evaluated once
KnownSources == {<<"x">>, <<"a", "b">>, <<"A", "B", " ">>}

KnownUrls ==
    {<<"f", "/">> \o TwoDigits(n) : n \in 1..(FillerCount + 1)}
    \cup {site \o <<"/">> \o TwoDigits(50 + k) :
            site \in {<<"x">>, <<"W", "w", "w", ".", "A", "b", ".", "c">>}, k \in 0..(MaxNews + 1)}

VerifiedPairs == [key \in KnownSources \X KnownUrls |-> Verifies(key[1], key[2])]

\* checkIfVerified(item), read from VerifiedPairs
checkIfVerified(item) == VerifiedPairs[<<item.source, item.url>>]

\* variant of scoreArticle: a coverage link counts 1
scoreArticleLinkCount(item) ==
    Len(Get(item, "moreCoverage", <<>>))
    + (IF Get(item, "source_type", "") = "priority" THEN 2 ELSE 0)
    + (IF checkIfVerified(item) THEN 1 ELSE 0)

\* Score an article for spotlight selection (higher = more prominent)
scoreArticle(item) ==
    Len(Get(item, "moreCoverage", <<>>)) * 3
    + (IF Get(item, "source_type", "") = "priority" THEN 2 ELSE 0)
    + (IF checkIfVerified(item) THEN 1 ELSE 0)

----------------------------------------------------------------------------
(* Array.prototype.sort: stable, by a comparator; a NaN result counts as 0 *)

\* new Date(inserted_at || 0).getTime(): the instant, 0 when the column is null
InsertedTime(item) == Get(item, "inserted_at", 0)

\* variant of SourceWeight: every source type weighs the same
SourceWeightFlat(item) == 2

\* SOURCE_WEIGHT[item.source_type ?? 'standard'] ?? 2
SourceWeight(item) ==
    LET t == Get(item, "source_type", "")
    IN  CASE t = "priority" -> 1
          [] t = "standard" -> 2
          [] t = "delist"   -> 3
          [] OTHER          -> 2

\* sortedNews: (a, b) => parseMDY(b.date) - parseMDY(a.date)
CompareDate(a, b) == Minus(Parsed(DateOf(b)), Parsed(DateOf(a)))

\* sortedDays: (a, b) => parseMDY(b) - parseMDY(a), on day keys
CompareDay(a, b) == Minus(Parsed(b), Parsed(a))

\* the result of the ranking comparator from aV, bV, wDiff and the
\* difference of the insertion times
Ranking(aV, bV, wDiff, tDiff) ==
    IF aV # bV THEN (IF aV THEN Num(-1) ELSE Num(1))
    ELSE IF wDiff # 0 THEN Num(wDiff)
    ELSE Num(tDiff)

\* fullDayArticles: verified first, then source-type weight, then newest first
CompareRanking(a, b) ==
    Ranking(checkIfVerified(a), checkIfVerified(b), SourceWeight(a) - SourceWeight(b),
            InsertedTime(b) - InsertedTime(a))

\* variant of the algoQueue comparator: ascending score
CompareScoreAscending(a, b) == Num(scoreArticle(a) - scoreArticle(b))

\* algoQueue: (a, b) => scoreArticle(b) - scoreArticle(a)
CompareScore(a, b) == Num(scoreArticle(b) - scoreArticle(a))

Compare(by, a, b) ==
    CASE by = "date"    -> CompareDate(a, b)
      [] by = "day"     -> CompareDay(a, b)
      [] by = "ranking" -> CompareRanking(a, b)
      [] by = "score"   -> CompareScore(a, b)

\* the comparator's result c does not put its first argument after its second
NotAfter(c) == isNaN(c) \/ c[1] <= 0

\* where x goes in the sorted r: after the last element that is not greater than it
RECURSIVE InsertPos(_, _, _, _)
InsertPos(r, x, j, by) ==
    IF j = 0 THEN 0
    ELSE IF NotAfter(Compare(by, r[j], x)) THEN j
    ELSE InsertPos(r, x, j - 1, by)

InsertAt(r, x, j) == SubSeq(r, 1, j) \o <<x>> \o SubSeq(r, j + 1, Len(r))

Insert(r, x, by) == InsertAt(r, x, InsertPos(r, x, Len(r), by))

RECURSIVE sort(_, _)
sort(s, by) ==
    IF s = <<>> THEN <<>>
    ELSE Insert(sort(SubSeq(s, 1, Len(s) - 1), by), s[Len(s)], by)

----------------------------------------------------------------------------
(* App: the sorted feed, its pages, and the days that own a spotlight *)

newsPerPage == 20

DayKey(item) == IF DateOf(item) = <<>> THEN unknown ELSE item.date

\* Array.prototype.slice(from, to), 0-based and end-exclusive
slice(s, from, to) ==
    LET lo == IF from < Len(s) THEN from ELSE Len(s)
        hi == IF to < Len(s) THEN to ELSE Len(s)
    IN  SubSeq(s, lo + 1, hi)

\* variant of the filter: no cutoff at all
NotFutureNoCutoff(item, todayPT) == TRUE

\* .filter(item => !item.date || parseMDY(item.date) <= todayPT)
NotFuture(item, todayPT) == DateOf(item) = <<>> \/ LessEq(Parsed(item.date), todayPT)

\* the memo on [news]: filtered by the cutoff, then sorted by date, newest first
sortedNews(n, parts) ==
    LET todayPT == getTodayPacific(parts)
        Keep(item) == NotFuture(item, todayPT)
    IN  sort(SelectSeq(n, Keep), "date")

currentNewsItems(sn, page) == slice(sn, (page - 1) * newsPerPage, page * newsPerPage)

\* Math.ceil(sortedNews.length / newsPerPage)
totalNewsPages(sn) == (Len(sn) + newsPerPage - 1) \div newsPerPage

\* variant of spotlightDays: every day that has an item on the page
spotlightDaysOfPage(sn, page) ==
    LET items == slice(sn, (page - 1) * newsPerPage, page * newsPerPage)
    IN  {DayKey(items[i]) : i \in 1..Len(items)}

\* a day's spotlight only appears on the page where that day's first article lands
spotlightDays(sn, page) ==
    LET pageStart == (page - 1) * newsPerPage
        pageEnd   == page * newsPerPage
        FirstSeen(i) == \A j \in 1..(i - 1) : DayKey(sn[j]) # DayKey(sn[i])
    IN  {DayKey(sn[i]) : i \in {k \in 1..Len(sn) :
                                  /\ FirstSeen(k)
                                  /\ k - 1 >= pageStart
                                  /\ k - 1 < pageEnd}}

----------------------------------------------------------------------------
(* NewsList: one page of the feed *)

Null == [null |-> TRUE]

Slots == 1..4

\* if (!grouped[day]) grouped[day] = []: a new key goes after the others
AddKey(keys, day) ==
    IF \E i \in 1..Len(keys) : keys[i] = day THEN keys ELSE Append(keys, day)

\* Object.keys(grouped): the day keys in the order their first item was pushed
RECURSIVE GroupedKeys(_)
GroupedKeys(items) ==
    IF items = <<>> THEN <<>>
    ELSE AddKey(GroupedKeys(SubSeq(items, 1, Len(items) - 1)), DayKey(items[Len(items)]))

\* grouped[day]: the items of the list with that day key, in list order
grouped(items, day) ==
    LET OfDay(item) == DayKey(item) = day
    IN  SelectSeq(items, OfDay)

\* fullDayArticles[day] || []: the day's items across ALL news, ranked
fullDayArticles(allNews, day) == sort(grouped(allNews, day), "ranking")

\* overrideLookup[day] || {}: slot -> the last override row of that (day, slot)
dayOverridesOf(overrides, day) ==
    LET Rows(slot) == {i \in 1..Len(overrides) :
                          overrides[i].dispatch_date = day /\ overrides[i].slot = slot}
        Last(slot) == CHOOSE i \in Rows(slot) : \A j \in Rows(slot) : j <= i
        keys == {overrides[i].slot : i \in {k \in 1..Len(overrides) :
                                              overrides[k].dispatch_date = day}}
    IN  [slot \in keys |-> overrides[Last(slot)]]

overriddenUrls(dayOverrides) == {dayOverrides[slot].url : slot \in DOMAIN dayOverrides}

\* variant of algoQueue: the score-sorted items, pinned or not
algoQueueUnfiltered(dayItems, dayOverrides) == sort(dayItems, "score")

\* Score-sorted queue for algorithm, excluding any URLs already manually placed
algoQueue(dayItems, dayOverrides) ==
    LET NotPinned(item) == item.url \notin overriddenUrls(dayOverrides)
    IN  SelectSeq(sort(dayItems, "score"), NotPinned)

\* Manual override: a NewsItem-shaped object from override data
FromOverride(ov, day) ==
    [url          |-> ov.url,
     title        |-> Get(ov, "title", <<>>),
     source       |-> Get(ov, "source", <<>>),
     summary      |-> Get(ov, "summary", <<>>),
     tags         |-> Get(ov, "tags", <<>>),
     date         |-> day,
     moreCoverage |-> <<>>]

\* queueIdx when the map reaches the slot: the number of algorithmic picks so far
queueIdx(dayOverrides, slot) ==
    Cardinality({s \in 1..(slot - 1) : s \notin DOMAIN dayOverrides})

\* algoQueue[idx] ?? null, idx counted from 0
Pick(queue, idx) == IF idx + 1 <= Len(queue) THEN queue[idx + 1] ELSE Null

\* [1, 2, 3, 4].map(slot => override, else algoQueue[queueIdx++] ?? null)
SlotsFrom(queue, dayOverrides, day) ==
    [slot \in Slots |->
        IF slot \in DOMAIN dayOverrides THEN FromOverride(dayOverrides[slot], day)
        ELSE Pick(queue, queueIdx(dayOverrides, slot))]

\* variant of spotlightSlots: the queue fills the slots first, an override only
\* takes a slot the queue leaves empty
spotlightSlotsQueueFirst(dayItems, dayOverrides, day) ==
    LET queue == algoQueue(dayItems, dayOverrides)
    IN  [slot \in Slots |->
            IF slot <= Len(queue) THEN queue[slot]
            ELSE IF slot \in DOMAIN dayOverrides THEN FromOverride(dayOverrides[slot], day)
            ELSE Null]

spotlightSlots(dayItems, dayOverrides, day) ==
    SlotsFrom(algoQueue(dayItems, dayOverrides), dayOverrides, day)

\* variant of allArticles: the day's items of the page in the order of the page
allArticlesPageOrder(fullDay, dayItems) == dayItems

\* Below-spotlight: current-page items for this day, in full-day sort order
allArticles(fullDay, dayItems) ==
    LET currentPageUrls == {dayItems[i].url : i \in 1..Len(dayItems)}
        OnPage(a)       == a.url \in currentPageUrls
    IN  SelectSeq(fullDay, OnPage)

\* what is rendered for a day: the divider's count, the resolved slots,
\* whether the spotlight card is rendered (leadSlot && spotlightDays.has(day)),
\* whether rendering the card throws (leadSlot.date.split('-') on a lead
\* whose date is null), and the article list
DayCard(dayItems, slots, allNews, spDays, day) ==
    [day       |-> day,
     count     |-> Len(dayItems),
     slots     |-> slots,
     spotlight |-> slots[1] # Null /\ day \in spDays,
     throws    |-> slots[1] # Null /\ day \in spDays /\ "date" \notin DOMAIN slots[1],
     river     |-> allArticles(fullDayArticles(allNews, day), dayItems)]

\* the day's card from dayItems and dayOverrides
DayOf(dayItems, dayOverrides, allNews, spDays, day) ==
    DayCard(dayItems, spotlightSlots(dayItems, dayOverrides, day), allNews, spDays, day)

\* the callback of sortedDays.map
DayView(items, allNews, overrides, spDays, day) ==
    DayOf(grouped(items, day), dayOverridesOf(overrides, day), allNews, spDays, day)

DayViews(sortedDays, items, allNews, overrides, spDays) ==
    [i \in 1..Len(sortedDays) |-> DayView(items, allNews, overrides, spDays, sortedDays[i])]

NewsList(items, allNews, overrides, spDays) ==
    DayViews(sort(GroupedKeys(items), "day"), items, allNews, overrides, spDays)

\* variant of PageView: spotlightDays memoised without currentPage among its
\* dependencies, so it is that of the page shown before
PageViewStaleDays(sn, overrides, page) ==
    NewsList(currentNewsItems(sn, page), sn, overrides, spotlightDays(sn, currentPage))

\* <NewsList items={currentNewsItems} allNews={sortedNews} ... /> for a page number
PageView(sn, overrides, page) ==
    NewsList(currentNewsItems(sn, page), sn, overrides, spotlightDays(sn, page))

----------------------------------------------------------------------------
(* The rows the queries can return *)

Clocks == {[month |-> <<"0", "3">>, day |-> <<"0", "1">>, year |-> <<"2", "0", "2", "6">>]}

Link == [source |-> <<"x">>, url |-> <<"l">>]

\* what a row carries besides url, date and inserted_at; a column that is
\* null is left out
Plain == [site |-> <<"x">>, source |-> <<"x">>, source_type |-> "standard", more_coverage |-> <<>>]

Priority == [site |-> <<"x">>, source |-> <<"x">>, source_type |-> "priority"]

Covered == [site |-> <<"x">>, source |-> <<"x">>, source_type |-> "standard", more_coverage |-> <<Link>>]

Covered2 == [site |-> <<"x">>, source |-> <<"a", "b">>, source_type |-> "standard", more_coverage |-> <<Link, Link>>]

Delisted == [site |-> <<"x">>, source |-> <<"A", "B", " ">>, source_type |-> "delist", more_coverage |-> <<>>]

Trusted == [site |-> <<"W", "w", "w", ".", "A", "b", ".", "c">>, source |-> <<"x">>, more_coverage |-> <<>>]

CoveredTwice == [site |-> <<"x">>, source |-> <<"x">>, source_type |-> "standard", more_coverage |-> <<Link, Link>>]

\* the (kind, date) a row of a short snapshot may have
Shapes ==
    ({Plain, Priority, Covered, Covered2, Delisted, Trusted} \X {Yesterday})
    \cup {<<Plain, Today>>, <<Covered2, Tomorrow>>, <<Plain, <<>> >>}

\* the (kind, date) a row that follows the filler may have
TailShapes == {<<Plain, Today>>, <<Covered2, Today>>, <<Plain, Yesterday>>}

\* rows with an odd date column next to ordinary rows: <<kind>> is a row
\* whose date is null
OddShapes ==
    {<<Plain>>, <<Plain, BadMonth>>, <<Plain, BadYear>>, <<Plain, Yesterday>>, <<Covered, Today>>}

\* the rows that may follow a row whose inserted_at is null
LateShapes == {<<Plain, Yesterday>>, <<Priority, Yesterday>>}

\* three rows of one day: no coverage, two coverage links, a priority source
ExampleKinds == <<Plain, CoveredTwice, Priority>>

Without(f, key) == [k \in DOMAIN f \ {key} |-> f[k]]

\* a news_items row: url is the primary key, inserted_at the ingestion instant
Row(kind, n, date, at) ==
    [url |-> kind.site \o <<"/">> \o TwoDigits(n), title |-> <<"N">> \o TwoDigits(n),
     summary |-> <<>>, date |-> date, inserted_at |-> at, tags |-> <<>>]
    @@ Without(kind, "site")

\* today's rows that arrived last: plain, every fourth from a whitelisted
\* source, every sixth from a priority source, every seventh from a delisted one
FillerKind(i) ==
    [site |-> <<"f">>,
     source |-> IF i % 4 = 0 THEN <<"a", "b">> ELSE <<"x">>,
     source_type |-> IF i % 6 = 0 THEN "priority" ELSE IF i % 7 = 0 THEN "delist" ELSE "standard",
     more_coverage |-> <<>>]

Filler(count) == [i \in 1..count |-> Row(FillerKind(i), i, Today, 100 - i)]

\* the row of a shape
RowOf(shape, n, at) ==
    IF Len(shape) = 2 THEN Row(shape[1], n, shape[2], at)
    ELSE Without(Row(shape[1], n, <<>>, at), "date")

\* rows of the given shapes, newest first, after `pad` rows
Chosen(shapes, pad) ==
    [k \in 1..Len(shapes) |-> RowOf(shapes[k], 50 + k, 50 - k)]

\* a row whose nullable columns other than date are null; inserted_at being
\* null, ORDER BY inserted_at DESC puts it first
Unstamped ==
    [k \in {"url", "title", "summary", "date", "source"} |-> Row(Plain, 50, Yesterday, 0)[k]]

\* the three example rows in any order of arrival
ExampleResults ==
    { <<Chosen([k \in 1..3 |-> <<ExampleKinds[f[k]], Yesterday>>], 0), 0>> :
        f \in {g \in [1..3 -> 1..3] : \A i \in 1..3 : \A j \in 1..3 : g[i] = g[j] => i = j} }

\* the results of news_items ... order('inserted_at', { ascending: false }):
\* up to MaxNews rows of any shape, or of an odd date, or the filler and up to
\* MaxNews tail rows, or a row without inserted_at and fewer than MaxNews
\* rows after it, or the example rows.
\* <<rows, pad>>: the rows and how many of them are filler
NewsResults ==
    UNION { { <<Chosen(shapes, 0), 0>> : shapes \in [1..n -> Shapes] \cup [1..n -> OddShapes] }
            \cup { <<Filler(FillerCount) \o Chosen(shapes, FillerCount), FillerCount>> :
                     shapes \in [1..n -> TailShapes] }
            \cup { <<(<<Unstamped>> \o Chosen(shapes, 1)), 0>> :
                     shapes \in UNION {[1..m -> LateShapes] : m \in 0..(n - 1)} }
            : n \in 0..MaxNews }
    \cup ExampleResults

External == <<"e", "/", "0", "1">>

\* the url an override may pin: that of the first chosen row, else of the first row
PinUrl(rows, pad) ==
    IF Len(rows) > pad THEN rows[pad + 1].url
    ELSE IF rows # <<>> THEN rows[1].url
    ELSE External

\* the day the overrides are for: that of the first chosen row, else today
TargetDay(rows, pad) ==
    IF Len(rows) > pad /\ DateOf(rows[pad + 1]) # <<>> THEN rows[pad + 1].date ELSE Today

\* a spotlight_overrides row; one for a url outside the feed has every column
\* set, one pinning a row of the feed leaves the optional columns null
OverrideRow(day, slot, url) ==
    IF url = External
    THEN [dispatch_date |-> day, slot |-> slot, url |-> url, title |-> <<"O">> \o TwoDigits(slot),
          source |-> <<"o">>, summary |-> <<"s">>, tags |-> << <<"t">> >>]
    ELSE [dispatch_date |-> day, slot |-> slot, url |-> url]

RECURSIVE SetToSeq(_)
SetToSeq(S) ==
    IF S = {} THEN <<>>
    ELSE LET x == CHOOSE y \in S : TRUE IN <<x>> \o SetToSeq(S \ {x})

\* the tables spotlight_overrides can hold: PRIMARY KEY (dispatch_date, slot),
\* CHECK (slot BETWEEN 1 AND 4), at most MaxOverrides rows, all for one day
OverrideTables(rows, pad) ==
    UNION { { SetToSeq({OverrideRow(TargetDay(rows, pad), slot, urls[slot]) : slot \in used}) :
                urls \in [used -> {External, PinUrl(rows, pad)}] }
            : used \in {u \in SUBSET (1..4) : Cardinality(u) <= MaxOverrides} }

----------------------------------------------------------------------------
(* The component *)

\* no helper function has been called on its own
NoCall == [fn |-> "none"]

\* the sorted feed of the state
Feed == sortedNews(news, todayParts)

\* the feed before the first fetch
FeedInit ==
    /\ news = <<>>
    /\ spotlightOverrides = <<>>
    /\ todayParts \in Clocks
    /\ loaded = FALSE
    /\ rendered = <<>>

\* the pagination and the history before the component is mounted
NavIdle ==
    /\ total = 0
    /\ skipHistoryPush = TRUE
    /\ historyEntries = <<>>
    /\ historyIndex = 0
    /\ lastEvent = [kind |-> "none"]

\* no error, no fetch so far
FetchIdle ==
    /\ error = FALSE
    /\ lastFetch = [failed |-> {}]

\* generate-admin.js is not running
ScriptIdle ==
    /\ processEnv = <<>>
    /\ fs = <<>>
    /\ pc = "idle"
    /\ html = <<>>
    /\ exitCode = 0

Init ==
    /\ FeedInit
    /\ currentPage = 1
    /\ call = NoCall
    /\ NavIdle
    /\ FetchIdle
    /\ ScriptIdle

\* variant of MapNewsRow: the row as it is
MapNewsRowAsIs(item) == item

\* Map DB snake_case -> frontend camelCase
MapNewsRow(item) ==
    [moreCoverage |-> Get(item, "more_coverage", <<>>), tags |-> Get(item, "tags", <<>>)] @@ item

\* fetchContent() on mount, every query succeeding: setNews,
\* setSpotlightOverrides, and the render that follows
fetchContent ==
    /\ ~loaded
    /\ \E result \in NewsResults :
         \E table \in OverrideTables(result[1], result[2]) :
           \E mapped \in {[i \in 1..Len(result[1]) |-> MapNewsRow(result[1][i])]} :
             /\ news' = mapped
             /\ spotlightOverrides' = table
             /\ rendered' = (currentPage :>
                               PageView(sortedNews(mapped, todayParts), table, currentPage))
    /\ loaded' = TRUE
    /\ UNCHANGED <<currentPage, todayParts, call, navVars, fetchVars, scriptVars>>

\* <Pagination current={currentPage} total={totalNewsPages} onChange={setCurrentPage} />:
\* Prev, Next or a numbered pill, and the render that follows
setCurrentPage ==
    /\ loaded
    /\ \E sn \in {Feed} :
         /\ totalNewsPages(sn) > 1
         /\ \E p \in 1..totalNewsPages(sn) :
              /\ p # currentPage
              /\ currentPage' = p
              /\ rendered' = (p :> PageView(sn, spotlightOverrides, p)) @@ rendered
    /\ UNCHANGED <<news, spotlightOverrides, todayParts, loaded, call, navVars, fetchVars,
                   scriptVars>>

Next == fetchContent \/ setCurrentPage

Spec == Init /\ [][Next]_vars
----------------------------------------------------------------------------
(* What the properties read from a state *)

Urls(s) == {s[i].url : i \in 1..Len(s)}

RECURSIVE Concat(_)
Concat(ss) == IF ss = <<>> THEN <<>> ELSE Head(ss) \o Concat(Tail(ss))

\* the rivers of a rendered page, day after day
PageRiver(view) == Concat([k \in 1..Len(view) |-> view[k].river])

\* every page of the feed sn has been shown since the fetch
AllShown(sn) == loaded /\ \A p \in 1..totalNewsPages(sn) : p \in DOMAIN rendered

\* the days of the feed sn
DaysOf(sn) == {DayKey(sn[i]) : i \in 1..Len(sn)}

\* the 1-based position of the day's first item in the feed sn
FirstPos(sn, day) ==
    CHOOSE i \in 1..Len(sn) : DayKey(sn[i]) = day /\ \A j \in 1..(i - 1) : DayKey(sn[j]) # day

\* the page whose range [(p-1)*20, p*20) holds the day's first position (0-based)
OwningPage(sn, day) == ((FirstPos(sn, day) - 1) \div 20) + 1

\* the rows of spotlight_overrides of a day, and of one of its slots
OverridesOfDay(day) ==
    {i \in 1..Len(spotlightOverrides) : spotlightOverrides[i].dispatch_date = day}

HasOverride(day, slot) == \E i \in OverridesOfDay(day) : spotlightOverrides[i].slot = slot

PinnedUrls(day) == {spotlightOverrides[i].url : i \in OverridesOfDay(day)}

\* the slots of a rendered day that the algorithm filled
AlgoFilled(g) == {s \in Slots : ~HasOverride(g.day, s) /\ g.slots[s] # Null}

\* two items alike in everything the score reads except the coverage links
SameButCoverage(a, b) ==
    /\ a.url # b.url
    /\ DateOf(a) = DateOf(b)
    /\ a.source = b.source
    /\ Get(a, "source_type", "") = Get(b, "source_type", "")
    /\ SubSeq(a.url, 1, Len(a.url) - 2) = SubSeq(b.url, 1, Len(b.url) - 2)

----------------------------------------------------------------------------
(* C1 *)

\* C1: once every page has been shown, every day of the feed has its
\* spotlight on exactly one page: never on none, never on two.
ExactlyOneSpotlightPage ==
    LET sn == Feed
    IN  AllShown(sn) =>
          \A day \in DaysOf(sn) :
              Cardinality({p \in 1..totalNewsPages(sn) :
                              \E k \in 1..Len(rendered[p]) :
                                  rendered[p][k].day = day /\ rendered[p][k].spotlight}) = 1

----------------------------------------------------------------------------
(* C2 *)

\* C2: the rivers of pages 1..totalPages, concatenated in order, are the
\* future-filtered feed sorted by dispatch date, newest first, and within each
\* day by the canonical ranking (verified, source-type weight, inserted_at
\* descending), every item once.
RiverContinuity ==
    LET sn   == Feed
        days == GroupedKeys(sn)
    IN  AllShown(sn) =>
          Concat([p \in 1..totalNewsPages(sn) |-> PageRiver(rendered[p])])
            = Concat([i \in 1..Len(days) |-> fullDayArticles(sn, days[i])])

----------------------------------------------------------------------------
(* C3 *)

\* the item's dispatch date is after today's date in America/Los_Angeles
IsFutureItem(item) ==
    LET todayPT == getTodayPacific(todayParts)
        at      == Parsed(DateOf(item))
    IN  DateOf(item) # <<>> /\ ~isNaN(at) /\ ~isNaN(todayPT) /\ at[1] > todayPT[1]

\* C3: an item dated after today (Pacific) is in no sorted list, in no
\* rendered river and in no algorithm-filled spotlight slot, on any page.
FutureCutoff ==
    LET sn == Feed
    IN  \A i \in 1..Len(news) :
          IsFutureItem(news[i]) =>
            /\ news[i].url \notin Urls(sn)
            /\ \A p \in DOMAIN rendered : \A k \in 1..Len(rendered[p]) :
                 LET g == rendered[p][k]
                 IN  /\ news[i].url \notin Urls(g.river)
                     /\ \A s \in AlgoFilled(g) : g.slots[s].url # news[i].url

\* a snapshot with an item dated tomorrow next to items that are shown
FutureCutoffWitness ==
    /\ loaded
    /\ \E i \in 1..Len(news) : IsFutureItem(news[i])
    /\ \E p \in DOMAIN rendered : \E k \in 1..Len(rendered[p]) :
         rendered[p][k].river # <<>> /\ AlgoFilled(rendered[p][k]) # {}

----------------------------------------------------------------------------
(* C4 *)

\* C4: on every rendered day, a slot that has an override row holds that
\* row's url, title, source, summary and tags, an absent column as the empty
\* string or list, whatever the day's items and their scores.
OverridePrecedence ==
    \A p \in DOMAIN rendered : \A k \in 1..Len(rendered[p]) :
        LET g == rendered[p][k]
        IN  \A i \in OverridesOfDay(g.day) :
              LET ov == spotlightOverrides[i]
                  s  == g.slots[ov.slot]
              IN  /\ s # Null
                  /\ s.url = ov.url
                  /\ s.title = (IF "title" \in DOMAIN ov THEN ov.title ELSE <<>>)
                  /\ s.source = (IF "source" \in DOMAIN ov THEN ov.source ELSE <<>>)
                  /\ s.summary = (IF "summary" \in DOMAIN ov THEN ov.summary ELSE <<>>)
                  /\ s.tags = (IF "tags" \in DOMAIN ov THEN ov.tags ELSE <<>>)

\* a rendered day with an override carrying its own title, another override
\* without one, and an unpinned item that scores above zero
OverridePrecedenceWitness ==
    \E p \in DOMAIN rendered : \E k \in 1..Len(rendered[p]) :
        LET g == rendered[p][k]
        IN  /\ \E i \in OverridesOfDay(g.day) :
                 /\ "title" \in DOMAIN spotlightOverrides[i]
                 /\ g.slots[spotlightOverrides[i].slot].title = spotlightOverrides[i].title
            /\ \E i \in OverridesOfDay(g.day) :
                 /\ "title" \notin DOMAIN spotlightOverrides[i]
                 /\ g.slots[spotlightOverrides[i].slot].title = <<>>
            /\ \E j \in 1..Len(g.river) :
                 g.river[j].url \notin PinnedUrls(g.day) /\ scoreArticle(g.river[j]) >= 3

----------------------------------------------------------------------------
(* C5 *)

\* C5: an override whose url is the url of no item of the snapshot is, on
\* the owning page of its day, in its slot with its own title, and the
\* spotlight that holds it is rendered.
UnmatchedOverrideRendered ==
    LET sn == Feed
    IN  loaded =>
          \A i \in 1..Len(spotlightOverrides) :
              LET ov  == spotlightOverrides[i]
                  day == ov.dispatch_date
              IN  (/\ ov.url \notin Urls(news)
                   /\ day \in DaysOf(sn)
                   /\ OwningPage(sn, day) \in DOMAIN rendered) =>
                    \E k \in 1..Len(rendered[OwningPage(sn, day)]) :
                        LET g == rendered[OwningPage(sn, day)][k]
                        IN  /\ g.day = day
                            /\ g.slots[ov.slot] = FromOverride(ov, day)
                            /\ g.spotlight

----------------------------------------------------------------------------
(* C6 *)

\* C6: of two unpinned items of a day that differ only in the number of
\* coverage links, the one with more links scores at least as much and is
\* never in a later spotlight slot than the other.
ScoreMonotonicity ==
    LET sn == Feed
    IN  \A a \in 1..Len(sn) : \A b \in 1..Len(sn) :
          (/\ SameButCoverage(sn[a], sn[b])
           /\ Len(sn[a].moreCoverage) > Len(sn[b].moreCoverage)
           /\ sn[a].url \notin PinnedUrls(DayKey(sn[a]))
           /\ sn[b].url \notin PinnedUrls(DayKey(sn[b]))) =>
            /\ scoreArticle(sn[a]) >= scoreArticle(sn[b])
            /\ \A p \in DOMAIN rendered : \A k \in 1..Len(rendered[p]) :
                 LET g == rendered[p][k]
                 IN  \A s \in AlgoFilled(g) : \A t \in AlgoFilled(g) :
                       (g.slots[s] = sn[a] /\ g.slots[t] = sn[b]) => s < t

\* a rendered day whose slots hold two such items
ScoreMonotonicityWitness ==
    LET sn == Feed
    IN  \E a \in 1..Len(sn) : \E b \in 1..Len(sn) :
          /\ SameButCoverage(sn[a], sn[b])
          /\ Len(sn[a].moreCoverage) > Len(sn[b].moreCoverage)
          /\ a > b
          /\ \E p \in DOMAIN rendered : \E k \in 1..Len(rendered[p]) :
               LET g == rendered[p][k]
               IN  \E s \in AlgoFilled(g) : \E t \in AlgoFilled(g) :
                     g.slots[s] = sn[a] /\ g.slots[t] = sn[b] /\ s < t

----------------------------------------------------------------------------
(* C7 *)

\* C7: a page that carries a day's spotlight is the page whose range
\* [(p-1)*20, p*20) holds the 0-based position of the day's first item in the
\* feed; an item of the day past that range is rendered on its own page, and
\* the day has no spotlight there.
OwningPageRule ==
    LET sn == Feed
    IN  loaded =>
          /\ \A p \in DOMAIN rendered : \A k \in 1..Len(rendered[p]) :
               rendered[p][k].spotlight =>
                 /\ (p - 1) * 20 <= FirstPos(sn, rendered[p][k].day) - 1
                 /\ FirstPos(sn, rendered[p][k].day) - 1 < p * 20
          /\ \A i \in 1..Len(sn) :
               LET p == ((i - 1) \div 20) + 1
               IN  p \in DOMAIN rendered =>
                     \E k \in 1..Len(rendered[p]) :
                         LET g == rendered[p][k]
                         IN  /\ g.day = DayKey(sn[i])
                             /\ sn[i].url \in Urls(g.river)
                             /\ p # OwningPage(sn, g.day) => ~g.spotlight

\* today's dispatch runs over page 1: page 1 carries its spotlight, page 2
\* shows its later items without one
OwningPageRuleWitness ==
    /\ loaded
    /\ {1, 2} \subseteq DOMAIN rendered
    /\ \E k \in 1..Len(rendered[1]) : \E j \in 1..Len(rendered[2]) :
         /\ rendered[1][k].day = rendered[2][j].day
         /\ rendered[1][k].spotlight
         /\ rendered[2][j].river # <<>>
         /\ ~rendered[2][j].spotlight

----------------------------------------------------------------------------
(* C8 *)

\* C8: in a rendered spotlight the slots without an override hold, in slot
\* order, the day's highest-scoring unpinned items in non-increasing score
\* order, and a slot is left empty only when the day's unpinned items have
\* all been placed.
SlotResolution ==
    LET sn == Feed
    IN  loaded =>
          \A p \in DOMAIN rendered : \A k \in 1..Len(rendered[p]) :
              LET g      == rendered[p][k]
                  free   == {j \in 1..Len(sn) :
                                DayKey(sn[j]) = g.day /\ sn[j].url \notin PinnedUrls(g.day)}
                  algo   == {s \in Slots : ~HasOverride(g.day, s)}
                  filled == AlgoFilled(g)
                  placed == {g.slots[s].url : s \in filled}
              IN  g.spotlight =>
                    /\ \A s \in filled : \E j \in free : sn[j] = g.slots[s]
                    /\ \A s \in filled : \A t \in filled :
                         s < t => /\ g.slots[s].url # g.slots[t].url
                                  /\ scoreArticle(g.slots[s]) >= scoreArticle(g.slots[t])
                    /\ \A s \in filled : \A j \in free :
                         sn[j].url \notin placed => scoreArticle(sn[j]) <= scoreArticle(g.slots[s])
                    /\ \A s \in algo \ filled :
                         /\ \A t \in filled : t < s
                         /\ \A j \in free : sn[j].url \in placed

----------------------------------------------------------------------------
(* C9 *)

\* C9: on the owning page of a day that has no override on slot 1 and has an
\* item that none of its overrides pins, the lead slot is not empty.
LeadPresent ==
    LET sn == Feed
    IN  loaded =>
          \A day \in DaysOf(sn) :
              (/\ OwningPage(sn, day) \in DOMAIN rendered
               /\ ~HasOverride(day, 1)
               /\ \E j \in 1..Len(sn) :
                    DayKey(sn[j]) = day /\ sn[j].url \notin PinnedUrls(day)) =>
                \E k \in 1..Len(rendered[OwningPage(sn, day)]) :
                    /\ rendered[OwningPage(sn, day)][k].day = day
                    /\ rendered[OwningPage(sn, day)][k].slots[1] # Null

----------------------------------------------------------------------------
(* C10 *)

\* C10: on every rendered day no algorithm-filled slot holds an item whose
\* url an override of the day has; so, the day's override urls being distinct
\* (item urls are unique), no url is in two of the day's four slots.
PinnedNeverAlgorithmic ==
    \A p \in DOMAIN rendered : \A k \in 1..Len(rendered[p]) :
        LET g == rendered[p][k]
        IN  /\ \A s \in AlgoFilled(g) : g.slots[s].url \notin PinnedUrls(g.day)
            /\ (/\ \A i \in OverridesOfDay(g.day) : \A j \in OverridesOfDay(g.day) :
                     i # j => spotlightOverrides[i].url # spotlightOverrides[j].url
                /\ \A i \in 1..Len(news) : \A j \in 1..Len(news) :
                     i # j => news[i].url # news[j].url) =>
                 \A s \in Slots : \A t \in Slots :
                     (s # t /\ g.slots[s] # Null /\ g.slots[t] # Null) =>
                       g.slots[s].url # g.slots[t].url

\* a rendered day with an item of the page pinned by an override, an item
\* picked by the algorithm, and distinct override urls
PinnedNeverAlgorithmicWitness ==
    \E p \in DOMAIN rendered : \E k \in 1..Len(rendered[p]) :
        LET g == rendered[p][k]
        IN  /\ PinnedUrls(g.day) \cap Urls(g.river) # {}
            /\ AlgoFilled(g) # {}
            /\ Cardinality(PinnedUrls(g.day)) = Cardinality(OverridesOfDay(g.day))
            /\ Cardinality(OverridesOfDay(g.day)) = 2

----------------------------------------------------------------------------
(* C11 *)

\* C11: rendering a page never throws, whatever the snapshot: an empty news
\* list, an empty override table, items without a date or without optional
\* fields.
RenderNeverThrows ==
    \A p \in DOMAIN rendered : \A k \in 1..Len(rendered[p]) : ~rendered[p][k].throws

----------------------------------------------------------------------------
(* C12 *)

\* C12: the items without a date are rendered under the one day "unknown",
\* and that day has no spotlight on any page.
UnknownDayNoSpotlight ==
    LET sn == Feed
    IN  loaded =>
          \A p \in DOMAIN rendered :
              /\ \A i \in 1..Len(sn) :
                   (DateOf(sn[i]) = <<>> /\ ((i - 1) \div newsPerPage) + 1 = p) =>
                     \E k \in 1..Len(rendered[p]) :
                         rendered[p][k].day = unknown /\ sn[i].url \in Urls(rendered[p][k].river)
              /\ \A k \in 1..Len(rendered[p]) :
                   rendered[p][k].day = unknown => ~rendered[p][k].spotlight

----------------------------------------------------------------------------
(* C13 *)

\* a date string one of whose month, day and year is no number
Malformed(d) ==
    LET parts == MapNumber(split(d, "-"))
    IN  d # <<>> /\ (Len(parts) # 3 \/ \E i \in 1..Len(parts) : isNaN(parts[i]))

\* C13: an item whose date is malformed has the ordinal 0, is kept by the
\* future-date filter, and comes after every item with a parsable date.
MalformedDateRetained ==
    LET sn == Feed
    IN  \A i \in 1..Len(news) :
          Malformed(DateOf(news[i])) =>
            /\ Parsed(news[i].date) = Num(0)
            /\ news[i].url \in Urls(sn)
            /\ \A a \in 1..Len(sn) : \A b \in 1..Len(sn) :
                 (/\ DateOf(sn[a]) # <<>>
                  /\ ~Malformed(DateOf(sn[a]))
                  /\ sn[b].url = news[i].url) => a < b

----------------------------------------------------------------------------
(* C14 *)

----------------------------------------------------------------------------
(* C15 *)

\* C15: the slots of a rendered spotlight are resolved from all the items of
\* the day in the snapshot, whatever the page split: no unpinned item of the
\* day left out of the slots scores higher than an item in an algorithm-filled
\* slot, and an algorithm slot is empty only when every unpinned item of the
\* day is in a slot.
SpotlightFromWholeDay ==
    LET sn == Feed
    IN  loaded =>
          \A p \in DOMAIN rendered : \A k \in 1..Len(rendered[p]) :
              LET g       == rendered[p][k]
                  wholeDay == {j \in 1..Len(sn) :
                                  DayKey(sn[j]) = g.day /\ sn[j].url \notin PinnedUrls(g.day)}
                  placed  == {g.slots[s].url : s \in AlgoFilled(g)}
                  leftOut == {j \in wholeDay : sn[j].url \notin placed}
              IN  g.spotlight =>
                    /\ \A j \in leftOut : \A s \in AlgoFilled(g) :
                         scoreArticle(sn[j]) <= scoreArticle(g.slots[s])
                    /\ (\E s \in Slots : ~HasOverride(g.day, s) /\ g.slots[s] = Null) =>
                         leftOut = {}

----------------------------------------------------------------------------
(* C16 *)

\* the paged feed of a news list: the rivers of all its pages, concatenated
PagedFeed(n) ==
    LET sn == sortedNews(n, todayParts)
    IN  Concat([p \in 1..totalNewsPages(sn) |-> PageRiver(PageView(sn, spotlightOverrides, p))])

\* the position of a url in a sequence of items (0 when absent)
PosOf(s, url) ==
    IF \E i \in 1..Len(s) : s[i].url = url
    THEN CHOOSE i \in 1..Len(s) : s[i].url = url /\ \A j \in 1..(i - 1) : s[j].url # url
    ELSE 0

\* the news list before its i-th item was ingested
Before(n, i) == SubSeq(n, 1, i - 1) \o SubSeq(n, i + 1, Len(n))

\* the two feeds show the items both have in the same relative order
SameRelativeOrder(before, after) ==
    \A a \in 1..Len(before) : \A b \in (a + 1)..Len(before) :
        LET pa == PosOf(after, before[a].url)
            pb == PosOf(after, before[b].url)
        IN  (pa # 0 /\ pb # 0) => pa < pb

\* C16: ingesting one more item does not change the relative order of the
\* items that were there: the paged feed of the news list without any one of
\* its items and the paged feed of the whole list agree on the order of every
\* two items of the former.
StableUnderGrowth ==
    loaded =>
      \A i \in 1..Len(news) :
          SameRelativeOrder(PagedFeed(Before(news, i)), PagedFeed(news))

----------------------------------------------------------------------------
(* C17 *)

\* C17: of two items of equal score in algorithm-filled slots of a rendered
\* day, the one in the earlier slot is not the one inserted earlier: the tie
\* goes to the later insertedAt, whatever the order the items were fetched in.
TieBrokenByRecency ==
    \A p \in DOMAIN rendered : \A k \in 1..Len(rendered[p]) :
        LET g == rendered[p][k]
        IN  \A s \in AlgoFilled(g) : \A t \in AlgoFilled(g) :
                (s < t /\ scoreArticle(g.slots[s]) = scoreArticle(g.slots[t])) =>
                    InsertedTime(g.slots[s]) >= InsertedTime(g.slots[t])

----------------------------------------------------------------------------
(* C18 *)

\* the positions of the feed that page p shows
PageSlice(sn, p) ==
    {j \in 1..Len(sn) : (p - 1) * newsPerPage < j /\ j <= p * newsPerPage}

\* C18: on every rendered page every day with an item in the page's slice has
\* a river, and the river of a day holds exactly the day's items of the slice,
\* each once, in the order they have in the day's ranking over all of the
\* day's items.
RiverIsPageSliceInDayRanking ==
    LET sn == Feed
    IN  loaded =>
          \A p \in DOMAIN rendered :
              /\ \A j \in PageSlice(sn, p) :
                     \E k \in 1..Len(rendered[p]) : rendered[p][k].day = DayKey(sn[j])
              /\ \A k \in 1..Len(rendered[p]) :
                     LET g      == rendered[p][k]
                         onPage == {j \in PageSlice(sn, p) : DayKey(sn[j]) = g.day}
                         full   == fullDayArticles(sn, g.day)
                     IN  /\ onPage # {}
                         /\ Len(g.river) = Cardinality(onPage)
                         /\ {g.river[i] : i \in 1..Len(g.river)} = {sn[j] : j \in onPage}
                         /\ \A a \in 1..Len(g.river) : \A b \in (a + 1)..Len(g.river) :
                                /\ PosOf(full, g.river[a].url) # 0
                                /\ PosOf(full, g.river[a].url) < PosOf(full, g.river[b].url)

\* pages 1 and 2 are rendered, a day has a river on both, and its river on
\* page 1 is not in the order the page has its items in
RiverIsPageSliceInDayRankingWitness ==
    /\ loaded
    /\ DOMAIN rendered = {1, 2}
    /\ \E k1 \in 1..Len(rendered[1]) : \E k2 \in 1..Len(rendered[2]) :
           /\ rendered[1][k1].day = rendered[2][k2].day
           /\ rendered[2][k2].river # <<>>
           /\ rendered[1][k1].river # grouped(currentNewsItems(Feed, 1), rendered[1][k1].day)

----------------------------------------------------------------------------
(* C19 *)

\* the ordinal weight of a source type: priority 1, standard 2, delist 3
WeightOf(item) ==
    LET t == Get(item, "source_type", "standard")
    IN  IF t = "priority" THEN 1 ELSE IF t = "delist" THEN 3 ELSE 2

\* a is not after b in the canonical order: verified before unverified, then
\* the lower weight, then the later insertion
CanonicallyBefore(a, b) ==
    IF checkIfVerified(a) # checkIfVerified(b) THEN checkIfVerified(a)
    ELSE IF WeightOf(a) # WeightOf(b) THEN WeightOf(a) < WeightOf(b)
    ELSE InsertedTime(a) >= InsertedTime(b)

\* C19: any two items of a rendered river, which lists items of one day in the
\* day's canonical ranking, are ordered verified before unverified, then by
\* source-type weight ascending (priority 1, standard 2, delist 3), then by
\* insertedAt descending.
CanonicalRanking ==
    \A p \in DOMAIN rendered : \A k \in 1..Len(rendered[p]) :
        LET river == rendered[p][k].river
        IN  \A a \in 1..Len(river) : \A b \in (a + 1)..Len(river) :
                CanonicallyBefore(river[a], river[b])

\* a rendered river in which each of the three keys decides a neighbouring
\* pair: verified next to unverified, equal verification with different
\* weights, equal verification and weight with different insertion times,
\* and both priority and delist items are ranked
CanonicalRankingWitness ==
    \E p \in DOMAIN rendered : \E k \in 1..Len(rendered[p]) :
        LET river == rendered[p][k].river
        IN  /\ \E a \in 1..(Len(river) - 1) :
                   checkIfVerified(river[a]) /\ ~checkIfVerified(river[a + 1])
            /\ \E a \in 1..(Len(river) - 1) :
                   /\ checkIfVerified(river[a]) = checkIfVerified(river[a + 1])
                   /\ WeightOf(river[a]) < WeightOf(river[a + 1])
            /\ \E a \in 1..(Len(river) - 1) :
                   /\ checkIfVerified(river[a]) = checkIfVerified(river[a + 1])
                   /\ WeightOf(river[a]) = WeightOf(river[a + 1])
                   /\ InsertedTime(river[a]) > InsertedTime(river[a + 1])
            /\ \E a \in 1..Len(river) : WeightOf(river[a]) = 1
            /\ \E a \in 1..Len(river) : WeightOf(river[a]) = 3

----------------------------------------------------------------------------
(* C20 *)

\* an unverified item with the given number of coverage links, of a priority
\* source or of a standard one
ExampleItem(item, links, priority) ==
    /\ ~checkIfVerified(item)
    /\ Len(item.moreCoverage) = links
    /\ IF priority THEN Get(item, "source_type", "standard") = "priority"
       ELSE Get(item, "source_type", "standard") = "standard"

\* the positions of a day's items in the feed
DayPositions(sn, day) == {j \in 1..Len(sn) : DayKey(sn[j]) = day}

\* the day of a day view has exactly three items, all on the page, and no
\* override: a plain one, one with two coverage links, a priority one
ExampleDay(sn, g, plain, covered, prio) ==
    /\ g.count = 3
    /\ ExampleItem(sn[plain], 0, FALSE)
    /\ ExampleItem(sn[covered], 2, FALSE)
    /\ ExampleItem(sn[prio], 0, TRUE)
    /\ {plain, covered, prio} = DayPositions(sn, g.day)
    /\ \A s \in Slots : ~HasOverride(g.day, s)

\* C20: the score of every item is 3 for each moreCoverage link, plus 2 if its
\* source type is priority, plus 1 if it is verified; and a day of three
\* unverified items with coverage 0, 2, 0 and types standard, standard,
\* priority and no override has the coverage-2 item in slot 1, the priority
\* item in slot 2, the plain item in slot 3 and nothing in slot 4.
ScoreFormula ==
    LET sn == Feed
    IN  /\ \A i \in 1..Len(news) :
               scoreArticle(news[i]) =
                   3 * Len(news[i].moreCoverage)
                   + (IF Get(news[i], "source_type", "standard") = "priority" THEN 2 ELSE 0)
                   + (IF checkIfVerified(news[i]) THEN 1 ELSE 0)
        /\ \A p \in DOMAIN rendered : \A k \in 1..Len(rendered[p]) :
               LET g   == rendered[p][k]
                   day == IF g.count = 3 THEN DayPositions(sn, g.day) ELSE {}
               IN  \A covered \in day : ExampleItem(sn[covered], 2, FALSE) =>
                       \A prio \in day : \A plain \in day :
                           ExampleDay(sn, g, plain, covered, prio) =>
                               /\ g.slots[1] = sn[covered]
                               /\ g.slots[2] = sn[prio]
                               /\ g.slots[3] = sn[plain]
                               /\ g.slots[4] = Null

\* the example day is rendered with its spotlight, from a snapshot that
\* supplied the plain item first and the coverage-2 item last
ScoreFormulaWitness ==
    LET sn == Feed
    IN  \E p \in DOMAIN rendered : \E k \in 1..Len(rendered[p]) :
            LET g   == rendered[p][k]
                day == IF g.count = 3 THEN DayPositions(sn, g.day) ELSE {}
            IN  \E covered \in day :
                    /\ ExampleItem(sn[covered], 2, FALSE)
                    /\ \E prio \in day : \E plain \in day :
                           /\ ExampleDay(sn, g, plain, covered, prio)
                           /\ g.spotlight
                           /\ plain < prio
                           /\ prio < covered
                           /\ scoreArticle(sn[covered]) = 6
                           /\ scoreArticle(sn[prio]) = 2
                           /\ scoreArticle(sn[plain]) = 0


----------------------------------------------------------------------------
(* parseMDY on its own *)

\* what may stand for the month, the day and the year of a date string
MonthTexts == {<<"0", "1">>, <<"0", "2">>, <<"1", "2">>, <<"0", "0">>, <<"x">>, <<>>}

DayTexts == {<<"0", "1">>, <<"2", "8">>, <<"3", "1">>, <<"0", "0">>, <<"x">>, <<>>}

YearTexts == {<<"2", "0", "2", "6">>, <<"2", "0", "2", "5">>, <<"0">>, <<"x">>, <<>>}

\* the strings parseMDY is called with: three parts, or two, or one
DateTexts ==
    {m \o <<"-">> \o d \o <<"-">> \o y : m \in MonthTexts, d \in DayTexts, y \in YearTexts}
    \cup {m \o <<"-">> \o d : m \in MonthTexts, d \in DayTexts}
    \cup MonthTexts

\* a call parseMDY(d)
parseMDYCall ==
    /\ \E d \in DateTexts : call' = [fn |-> "parseMDY", arg |-> d, out |-> parseMDY(d)]
    /\ UNCHANGED <<feedVars, currentPage, navVars, fetchVars, scriptVars>>

SpecParseMDY == Init /\ [][parseMDYCall]_vars

\* the text is a positive integer: decimal digits, not all of them 0
PositiveInteger(t) ==
    /\ t # <<>>
    /\ \A i \in 1..Len(t) : IsDigit(t[i])
    /\ \E i \in 1..Len(t) : t[i] # "0"

\* the month, the day and the year of MM-DD-YYYY (empty when the part is missing)
PartText(d, i) == IF i <= Len(split(d, "-")) THEN split(d, "-")[i] ELSE <<>>

\* the string gets the sentinel: a part is no positive integer
Unsortable(d) == \E i \in 1..3 : ~PositiveInteger(PartText(d, i))

\* the date strings of calendar dates, oldest first
CalendarDates ==
    << <<"0", "1", "-", "0", "1", "-", "2", "0", "2", "5">>,
       <<"1", "2", "-", "3", "1", "-", "2", "0", "2", "5">>,
       <<"0", "1", "-", "0", "1", "-", "2", "0", "2", "6">>,
       <<"0", "1", "-", "2", "8", "-", "2", "0", "2", "6">>,
       <<"0", "2", "-", "0", "1", "-", "2", "0", "2", "6">>,
       <<"1", "2", "-", "0", "1", "-", "2", "0", "2", "6">> >>

\* C21: parseMDY returns 0 when the month, the day or the year of the string
\* is not a positive integer (so also when the year is 0); for a calendar
\* date it returns a number, and of two calendar dates the later one gets
\* the larger number.
SentinelOrOrdinal ==
    call.fn = "parseMDY" =>
        /\ Unsortable(call.arg) => call.out = Num(0)
        /\ \A i \in 1..Len(CalendarDates) :
               call.arg = CalendarDates[i] =>
                   /\ ~isNaN(call.out)
                   /\ call.out # Num(0)
                   /\ \A j \in 1..Len(CalendarDates) :
                          i < j => call.out[1] < parseMDY(CalendarDates[j])[1]

----------------------------------------------------------------------------
(* checkIfVerified on its own *)

\* rows a whitelist.json may have: a name and a url, a name only, a url only,
\* a url whose host has "www." inside, neither
WhitelistRows ==
    { [SourceName |-> <<" ", "A", "b">>,
       WebsiteURL |-> <<"h", "t", "t", "p", "s", ":", "/", "/", "w", "w", "w", ".", "a", "b", ".", "c">>],
      [SourceName |-> <<"x", "b">>],
      [WebsiteURL |-> <<"h", "t", "t", "p", ":", "/", "/", "W", ".", "c">>],
      [SourceName |-> <<"a", "w">>,
       WebsiteURL |-> <<"h", "t", "t", "p", "s", ":", "/", "/", "a", "w", "w", "w", ".", "c">>] }

\* the whitelists: no row, one row, two different rows
Whitelists ==
    {<<>>} \cup {<<r>> : r \in WhitelistRows}
    \cup {<<pair[1], pair[2]>> : pair \in {rq \in WhitelistRows \X WhitelistRows : rq[1] # rq[2]}}

ItemSources == {<<"x">>, <<"A", "B", " ">>, <<"x", "B">>}

ItemUrls ==
    { <<"h", "t", "t", "p", "s", ":", "/", "/", "a", "b", ".", "c", "/", "1">>,
      <<"h", "t", "t", "p", "s", ":", "/", "/", "a", "w", "w", "w", ".", "c", "/", "1">>,
      <<"h", "t", "t", "p", ":", "/", "/", "w", ".", "c">>,
      <<"x", "/", "1">> }

\* the items: a source or none, a url or none
VerifiedItems ==
    {[source |-> src, url |-> u] : src \in ItemSources, u \in ItemUrls}
    \cup {[url |-> u] : u \in ItemUrls}
    \cup {[source |-> src] : src \in ItemSources}

\* a call checkIfVerified(item) in a build whose whitelist.json has the rows
checkIfVerifiedCall ==
    /\ \E rows \in Whitelists : \E item \in VerifiedItems :
           call' = [fn |-> "checkIfVerified", whitelist |-> rows, arg |-> item,
                    out |-> SomeMatches(KeysOf(rows), item)]
    /\ UNCHANGED <<feedVars, currentPage, navVars, fetchVars, scriptVars>>

SpecCheckIfVerified == Init /\ [][checkIfVerifiedCall]_vars

\* s without the prefix, when it starts with it
StripLeading(s, prefix) ==
    IF Len(s) >= Len(prefix) /\ SubSeq(s, 1, Len(prefix)) = prefix
    THEN SubSeq(s, Len(prefix) + 1, Len(s)) ELSE s

\* the row's websiteUrl without protocol prefix and leading "www."
BareUrl(w) ==
    StripLeading(StripLeading(StripLeading(toLowerCase(Get(w, "WebsiteURL", <<>>)), HttpsPrefix),
                              HttpPrefix),
                 WwwPrefix)

\* the row makes the item verified: equal names after trimming and
\* lower-casing, or a non-empty websiteUrl whose bare form is in the item's url
RowVerifies(w, item) ==
    \/ trim(toLowerCase(Get(w, "SourceName", <<>>))) = trim(toLowerCase(Get(item, "source", <<>>)))
    \/ /\ Get(w, "WebsiteURL", <<>>) # <<>>
       /\ "url" \in DOMAIN item
       /\ includes(toLowerCase(item.url), BareUrl(w))

\* C22: checkIfVerified(item) is true exactly when some whitelist row has the
\* item's source as its name, both trimmed and lower-cased, or has a non-empty
\* website url that, without protocol prefix and leading "www.", is a
\* substring of the item's url; with an empty whitelist it is false.
VerifiedExactly ==
    call.fn = "checkIfVerified" =>
        /\ call.out = (\E i \in 1..Len(call.whitelist) : RowVerifies(call.whitelist[i], call.arg))
        /\ call.whitelist = <<>> => ~call.out

----------------------------------------------------------------------------
(* C23 *)

\* the item with the neutral source type where it has none
AsStandard(item) == item @@ [source_type |-> "standard"]

\* the rows of spotlight_overrides behind slot s of a day
OverrideRowsOf(day, s) ==
    {i \in 1..Len(spotlightOverrides) :
        spotlightOverrides[i].dispatch_date = day /\ spotlightOverrides[i].slot = s}

\* C23: a missing optional field acts as its neutral default: a fetched item
\* always has a tag list and a coverage list, both empty when the row had
\* none; a row without more_coverage scores without coverage points; an item
\* without source_type scores and ranks against every other item as the same
\* item of type standard does; and a slot built from an override has a tag
\* list, empty when the override has none.
MissingFieldsDefault ==
    /\ \A i \in 1..Len(news) :
           /\ "tags" \in DOMAIN news[i]
           /\ "moreCoverage" \in DOMAIN news[i]
           /\ "more_coverage" \notin DOMAIN news[i] =>
                  /\ news[i].moreCoverage = <<>>
                  /\ scoreArticle(news[i]) =
                         (IF Get(news[i], "source_type", "standard") = "priority" THEN 2 ELSE 0)
                         + (IF checkIfVerified(news[i]) THEN 1 ELSE 0)
           /\ "source_type" \notin DOMAIN news[i] =>
                  /\ scoreArticle(news[i]) = scoreArticle(AsStandard(news[i]))
                  /\ \A j \in 1..Len(news) :
                         /\ CompareRanking(news[i], news[j]) = CompareRanking(AsStandard(news[i]), news[j])
                         /\ CompareRanking(news[j], news[i]) = CompareRanking(news[j], AsStandard(news[i]))
    /\ \A p \in DOMAIN rendered : \A k \in 1..Len(rendered[p]) : \A s \in Slots :
           HasOverride(rendered[p][k].day, s) =>
               /\ "tags" \in DOMAIN rendered[p][k].slots[s]
               /\ (\A i \in OverrideRowsOf(rendered[p][k].day, s) :
                       "tags" \notin DOMAIN spotlightOverrides[i]) =>
                      rendered[p][k].slots[s].tags = <<>>

\* a row without source_type, more_coverage and tags (the one without
\* inserted_at) has been fetched next to another item of its day, it is in
\* a rendered river, and a rendered slot comes from an override without tags
MissingFieldsDefaultWitness ==
    /\ \E i \in 1..Len(news) :
           /\ DOMAIN news[i] \cap {"inserted_at", "source_type", "more_coverage"} = {}
           /\ news[i].tags = <<>>
           /\ \E j \in 1..Len(news) : j # i /\ DayKey(news[j]) = DayKey(news[i])
           /\ \E p \in DOMAIN rendered : \E k \in 1..Len(rendered[p]) :
                  /\ news[i].url \in Urls(rendered[p][k].river)
                  /\ \E s \in Slots :
                         /\ HasOverride(rendered[p][k].day, s)
                         /\ \A r \in OverrideRowsOf(rendered[p][k].day, s) :
                                "tags" \notin DOMAIN spotlightOverrides[r]
                         /\ rendered[p][k].slots[s].tags = <<>>

----------------------------------------------------------------------------
(* The Pagination component *)

MaxTotal == 15       \* pages a snapshot may have for <Pagination>

\* the entry '…' of the pill list (no page has the number 0)
Ellipsis == 0

\* for (let i = a; i <= b; i++) pills.push(i)
PushRange(a, b) == [i \in 1..(b - a + 1) |-> a + i - 1]

\* variant of pills: two pages on either side of the current one
pillsWide(current, pages) ==
    IF pages <= 7 THEN PushRange(1, pages)
    ELSE IF current <= 4 THEN PushRange(1, 5) \o <<Ellipsis, pages>>
    ELSE IF current >= pages - 3 THEN <<1, Ellipsis>> \o PushRange(pages - 4, pages)
    ELSE <<1, Ellipsis>> \o PushRange(current - 2, current + 2) \o <<Ellipsis, pages>>

\* Build pill list: always show first/last, up to 3 around current, ellipsis elsewhere
pills(current, pages) ==
    IF pages <= 7 THEN PushRange(1, pages)
    ELSE IF current <= 4 THEN PushRange(1, 5) \o <<Ellipsis, pages>>
    ELSE IF current >= pages - 3 THEN <<1, Ellipsis>> \o PushRange(pages - 4, pages)
    ELSE <<1, Ellipsis>> \o PushRange(current - 1, current + 1) \o <<Ellipsis, pages>>

\* if (total <= 1) return null
PaginationRendered(pages) == ~(pages <= 1)

\* <button disabled={current === 1} ...>Prev
PrevDisabled(current) == current = 1

\* variant of NextDisabled: Next is never disabled
NextNeverDisabled(current, pages) == FALSE

\* <button disabled={current === total} ...>Next
NextDisabled(current, pages) == current = pages

\* the numbers of the pill buttons
PillPages(current, pages) ==
    {pills(current, pages)[i] : i \in {j \in 1..Len(pills(current, pages)) :
                                          pills(current, pages)[j] # Ellipsis}}

\* the props of a mounted <Pagination>: total pages and a current page among
\* them (page 1 when there is none)
PaginationProps ==
    /\ total \in 0..MaxTotal
    /\ currentPage \in 1..(IF total = 0 THEN 1 ELSE total)

InitPagination ==
    /\ FeedInit
    /\ PaginationProps
    /\ call = NoCall
    /\ skipHistoryPush = TRUE
    /\ historyEntries = <<>>
    /\ historyIndex = 0
    /\ lastEvent = [kind |-> "none"]
    /\ FetchIdle
    /\ ScriptIdle

\* handlePageChange(newPage) with onChange = setCurrentPage
handlePageChange(kind, newPage) ==
    /\ currentPage' = newPage
    /\ lastEvent' = [kind |-> kind, from |-> currentPage]
    /\ UNCHANGED <<feedVars, call, total, skipHistoryPush, historyEntries, historyIndex,
                   fetchVars, scriptVars>>

\* a click on Prev
clickPrev ==
    /\ PaginationRendered(total)
    /\ ~PrevDisabled(currentPage)
    /\ handlePageChange("prev", currentPage - 1)

\* a click on Next
clickNext ==
    /\ PaginationRendered(total)
    /\ ~NextDisabled(currentPage, total)
    /\ currentPage <= MaxTotal    \* the page number stays within the bound
    /\ handlePageChange("next", currentPage + 1)

\* a click on a numbered pill
clickPill ==
    /\ PaginationRendered(total)
    /\ \E p \in PillPages(currentPage, total) : handlePageChange("pill", p)

NextPagination == clickPrev \/ clickNext \/ clickPill

SpecPagination == InitPagination /\ [][NextPagination]_vars

----------------------------------------------------------------------------
(* C26 *)

\* C26: starting from a current page in 1..total, clicks on Prev, Next and
\* the numbered pills keep the current page in 1..total: a click on Prev never
\* comes from page 1, a click on Next never from page total, and there is no
\* click at all when total <= 1.
PageStaysInRange ==
    /\ total >= 1 => currentPage \in 1..total
    /\ lastEvent.kind \in {"prev", "next", "pill"} => total > 1
    /\ lastEvent.kind = "prev" => lastEvent.from # 1 /\ currentPage = lastEvent.from - 1
    /\ lastEvent.kind = "next" => lastEvent.from # total /\ currentPage = lastEvent.from + 1

\* Next has led to the last of more than seven pages, where it is disabled
PageStaysInRangeWitness ==
    /\ lastEvent.kind = "next"
    /\ total > 7
    /\ currentPage = total
    /\ NextDisabled(currentPage, total)
    /\ ~PrevDisabled(currentPage)

----------------------------------------------------------------------------
(* C29 *)

\* the positions of the numbers in a pill list
NumberPositions(ps) == {i \in 1..Len(ps) : ps[i] # Ellipsis}

\* C29: for total > 1 and current in 1..total the pill list has page 1, page
\* total and the current page, its page numbers are in 1..total and strictly
\* increasing, it has at most 7 entries, and every ellipsis stands between
\* two numbers that are not consecutive.
PillListShape ==
    (total > 1 /\ currentPage \in 1..total) =>
        LET ps == pills(currentPage, total)
        IN  /\ {1, total, currentPage} \subseteq {ps[i] : i \in NumberPositions(ps)}
            /\ \A i \in NumberPositions(ps) : ps[i] \in 1..total
            /\ \A i \in NumberPositions(ps) : \A j \in NumberPositions(ps) :
                   i < j => ps[i] < ps[j]
            /\ Len(ps) <= 7
            /\ \A i \in 1..Len(ps) :
                   ps[i] = Ellipsis =>
                       /\ i - 1 \in NumberPositions(ps)
                       /\ i + 1 \in NumberPositions(ps)
                       /\ ps[i + 1] - ps[i - 1] >= 2

\* a click on a pill has led to a page in the middle of more than seven
\* pages, where the list has two ellipses
PillListShapeWitness ==
    /\ lastEvent.kind = "pill"
    /\ total > 7
    /\ currentPage > 4
    /\ currentPage < total - 3
    /\ Cardinality({i \in 1..Len(pills(currentPage, total)) :
                       pills(currentPage, total)[i] = Ellipsis}) = 2

----------------------------------------------------------------------------
(* The page number and the browser history *)

MaxNavPages == 3     \* pages of the snapshot while the history is followed

MaxHistory == 4      \* entries the history may grow to

\* the state of the entry the document was loaded into
EmptyState == <<>>

\* the pages handlePageChange can pass to onChange from the rendered control
ClickTargets(current, pages) ==
    IF ~PaginationRendered(pages) THEN {}
    ELSE (IF PrevDisabled(current) THEN {} ELSE {current - 1})
         \cup (IF NextDisabled(current, pages) THEN {} ELSE {current + 1})
         \cup PillPages(current, pages)

\* history.pushState({ newsPage: page }, '', url): the entries after the
\* current one are dropped, the new entry becomes the current one
PushState(entries, index, page) == SubSeq(entries, 1, index) \o << [newsPage |-> page] >>

\* the effect on [currentPage]: if (skipHistoryPush.current) {
\* skipHistoryPush.current = false; return; } history.pushState(...)
PushEffect(skip, entries, index, page) ==
    IF skip THEN [skip |-> FALSE, entries |-> entries, index |-> index, pushed |-> 0]
    ELSE [skip |-> FALSE, entries |-> PushState(entries, index, page), index |-> index + 1,
          pushed |-> 1]

\* the effects of a render: the effect on [currentPage] runs when the page
\* number has changed, otherwise the ref and the history stay as they are
AfterRender(changed, skip, entries, index, page) ==
    IF changed THEN PushEffect(skip, entries, index, page)
    ELSE [skip |-> skip, entries |-> entries, index |-> index, pushed |-> 0]

\* the App before its first render: the page of the session (one of the
\* snapshot's pages), the ref, the entry the document was loaded into
InitNav ==
    /\ FeedInit
    /\ call = NoCall
    /\ total \in 0..MaxNavPages
    /\ currentPage \in 1..(IF total = 0 THEN 1 ELSE total)
    /\ skipHistoryPush = TRUE
    /\ historyEntries = <<EmptyState>>
    /\ historyIndex = 1
    /\ lastEvent = [kind |-> "none"]
    /\ FetchIdle
    /\ ScriptIdle

\* the state of the ref and the history after a render, and what is left alone
Rendered(kind, after) ==
    /\ skipHistoryPush' = after.skip
    /\ historyEntries' = after.entries
    /\ historyIndex' = after.index
    /\ lastEvent' = [kind |-> kind, from |-> currentPage, pushed |-> after.pushed]
    /\ UNCHANGED <<feedVars, call, total, fetchVars, scriptVars>>

\* the first render: history.replaceState({ newsPage: currentPage }, ...),
\* then the effect on [currentPage]
mount ==
    /\ lastEvent.kind = "none"
    /\ UNCHANGED currentPage
    /\ Rendered("mount",
                PushEffect(skipHistoryPush,
                           [historyEntries EXCEPT ![historyIndex] = [newsPage |-> currentPage]],
                           historyIndex, currentPage))

\* onChange={setCurrentPage} called by the pagination control, and the render
\* that follows
onChange ==
    /\ lastEvent.kind # "none"
    /\ \E p \in ClickTargets(currentPage, total) :
         \E after \in {AfterRender(p # currentPage, skipHistoryPush, historyEntries,
                                   historyIndex, p)} :
           /\ Len(after.entries) <= MaxHistory
           /\ currentPage' = p
           /\ Rendered("pagination", after)

\* handlePop on a popstate event (browser back, forward or go to an entry):
\* skipHistoryPush.current = true; setCurrentPage(e.state?.newsPage ?? 1)
handlePop ==
    /\ lastEvent.kind # "none"
    /\ \E i \in (1..Len(historyEntries)) \ {historyIndex} :
         \E p \in {Get(historyEntries[i], "newsPage", 1)} :
           /\ currentPage' = p
           /\ Rendered("popstate", AfterRender(p # currentPage, TRUE, historyEntries, i, p))

\* handleLogoClick: skipHistoryPush.current = true; setCurrentPage(1); ...
\* history.pushState({ newsPage: 1 }, '', '/'), and the render that follows
handleLogoClick ==
    /\ lastEvent.kind # "none"
    /\ historyIndex < MaxHistory
    /\ currentPage' = 1
    /\ Rendered("logo", AfterRender(currentPage # 1, TRUE,
                                    PushState(historyEntries, historyIndex, 1),
                                    historyIndex + 1, 1))

NextNav == mount \/ onChange \/ handlePop \/ handleLogoClick

SpecNav == InitNav /\ [][NextNav]_vars

----------------------------------------------------------------------------
(* C24 *)

\* C24: a change of the page number made through the pagination control
\* pushes exactly one history entry, for the new page; the first render
\* pushes none, and the page change of a popstate or a logo reset pushes none.
\* So no flag left by an earlier event suppresses the push of a click.
PaginationPushesOnce ==
    /\ (lastEvent.kind = "pagination" /\ lastEvent.from # currentPage) =>
           /\ lastEvent.pushed = 1
           /\ historyEntries[historyIndex] = [newsPage |-> currentPage]
    /\ lastEvent.kind \in {"mount", "popstate", "logo"} => lastEvent.pushed = 0

----------------------------------------------------------------------------
(* fetchContent with queries that carry errors, and Retry Sync *)

\* the tables of the eight queries of Promise.all, in the order of the code
Tables ==
    {"news_items", "videos", "github_projects", "research_papers", "events", "feed_metadata",
     "spotlight_overrides", "daily_editions"}

\* variant of ThrowingTables: an error of spotlight_overrides is thrown too
ThrowingTablesWithSpotlight ==
    {"news_items", "videos", "github_projects", "research_papers", "spotlight_overrides"}

\* if (newsRes.error) throw newsRes.error; ... videosRes, projectsRes, researchRes
ThrowingTables == {"news_items", "videos", "github_projects", "research_papers"}

\* the queries that carry an error in one fetch: none, any one, the four
\* whose error is not looked at, or all
FailureSets ==
    {f \in SUBSET Tables : Cardinality(f) <= 1}
    \cup {Tables \ {"news_items", "videos", "github_projects", "research_papers"}, Tables}

\* the rows the news query may return: none, or one or two rows of yesterday
FetchedNews ==
    UNION {{Chosen(shapes, 0) : shapes \in [1..n -> LateShapes]} : n \in 0..MaxNews}

\* the rows the overrides query may return for those news: at most one row
FetchedOverrides(rows) == {t \in OverrideTables(rows, 0) : Len(t) <= 1}

\* the first fetch has not completed: nothing is rendered, no error is set
InitFetch ==
    /\ FeedInit
    /\ currentPage = 1
    /\ call = NoCall
    /\ NavIdle
    /\ FetchIdle
    /\ ScriptIdle

\* the catch branch: setError(...); the states of the data stay as they
\* are and the error panel is rendered in place of the feed
FetchThrows(failed) ==
    /\ error' = TRUE
    /\ rendered' = <<>>
    /\ lastFetch' = [failed |-> failed, errorBefore |-> error]
    /\ UNCHANGED <<news, spotlightOverrides>>

\* the try branch to its end: setNews, setSpotlightOverrides (data || [], the
\* data of a query with an error being null), nothing done to error, and the
\* render: the error panel when error is set, else the feed
FetchStores(failed, mapped, table) ==
    /\ news' = mapped
    /\ spotlightOverrides' = table
    /\ error' = error
    /\ rendered' = IF error THEN <<>>
                   ELSE (currentPage :> PageView(sortedNews(mapped, todayParts), table, currentPage))
    /\ lastFetch' = [failed |-> failed, errorBefore |-> error, news |-> mapped]

\* fetchContent() on mount or from the "Retry Sync" button of the error
\* panel, with the results its queries settle with
fetchContentSettled ==
    /\ ~loaded \/ error
    /\ \E failed \in FailureSets : \E rows \in FetchedNews : \E table \in FetchedOverrides(rows) :
         \E mapped \in {[i \in 1..Len(rows) |-> MapNewsRow(rows[i])]} :
           IF failed \cap ThrowingTables # {} THEN FetchThrows(failed)
           ELSE FetchStores(failed, mapped,
                            IF "spotlight_overrides" \in failed THEN <<>> ELSE table)
    /\ loaded' = TRUE
    /\ UNCHANGED <<currentPage, todayParts, call, navVars, scriptVars>>

SpecFetch == InitFetch /\ [][fetchContentSettled]_vars

----------------------------------------------------------------------------
(* C25 *)

\* C25: when the last fetch completed without throwing, no error is set and
\* the feed is rendered, also when an earlier fetch had failed.
SuccessClearsError ==
    (loaded /\ lastFetch.failed \cap ThrowingTables = {}) =>
        /\ ~error
        /\ currentPage \in DOMAIN rendered

----------------------------------------------------------------------------
(* C27 *)

\* the last fetch had an error on at least one of the given tables
LastFetchFailedOn(tables) == lastFetch.failed \cap tables # {}

\* what the feed shows on the current page for the stored news and overrides
FeedOfStored == PageView(sortedNews(news, todayParts), spotlightOverrides, currentPage)

\* C27: a fetch whose only errors are on spotlight_overrides, daily_editions,
\* events or feed_metadata does not set the error state: the news it
\* fetched are stored and, the app not being in the error state already, the
\* feed is rendered from them, with no override row when spotlight_overrides
\* failed; a fetch with an error on news_items, videos, github_projects or
\* research_papers sets the error state, and nothing else does.
OptionalErrorsTolerated ==
    loaded =>
        /\ ~LastFetchFailedOn({"news_items", "videos", "github_projects", "research_papers"}) =>
              /\ error = lastFetch.errorBefore
              /\ news = lastFetch.news
              /\ "spotlight_overrides" \in lastFetch.failed => spotlightOverrides = <<>>
              /\ ~lastFetch.errorBefore =>
                    /\ currentPage \in DOMAIN rendered
                    /\ rendered[currentPage] = FeedOfStored
        /\ LastFetchFailedOn({"news_items", "videos", "github_projects", "research_papers"}) =>
              error
        /\ (error /\ ~lastFetch.errorBefore) =>
              LastFetchFailedOn({"news_items", "videos", "github_projects", "research_papers"})

\* the first fetch had errors on exactly the four tolerated queries: no error
\* is set, a row of news is stored and rendered in the feed, no override is
\* stored
OptionalErrorsToleratedWitness ==
    /\ loaded
    /\ lastFetch.failed = {"spotlight_overrides", "daily_editions", "events", "feed_metadata"}
    /\ ~error
    /\ Len(news) = MaxNews
    /\ spotlightOverrides = <<>>
    /\ currentPage \in DOMAIN rendered
    /\ Len(rendered[currentPage]) = 1
    /\ rendered[currentPage][1].count = MaxNews

----------------------------------------------------------------------------
(* scripts/generate-admin.js *)
(* A text is a sequence whose elements are single characters or whole      *)
(* names (a variable name, a placeholder); process.env maps the text of a  *)
(* name to the text of its value, and the disk maps a path to a text.      *)

\* the most variables of REQUIRED that process.env starts without a value for
MaxUnset == 2

REQUIRED ==
    <<"ADMIN_SUPABASE_URL", "ADMIN_SUPABASE_ANON", "ADMIN_EMAIL", "ADMIN_GH_REPO",
      "ADMIN_GH_BRANCH", "ADMIN_GH_WHITELIST_PATH">>

envFile == ".env.admin"

templatePath == "admin.template.html"

outputPath == "public/admin.html"

existsSync(disk, path) == path \in DOMAIN disk.files

\* .replace(/^["']|["']$/g, ''): a quote at the start and a quote at the
\* end, the same character not being matched twice
StripQuotes(s) ==
    LET lead == IF s # <<>> /\ s[1] \in {"\"", "'"} THEN 1 ELSE 0
        trail == IF Len(s) > lead /\ s[Len(s)] \in {"\"", "'"} THEN 1 ELSE 0
    IN  SubSeq(s, 1 + lead, Len(s) - trail)

\* the body of the loop over the lines of .env.admin
LoadLine(env, line) ==
    LET trimmed == trim(line)
        eq == IndexOf(trimmed, <<"=">>)
        key == trim(SubSeq(trimmed, 1, eq - 1))
        val == StripQuotes(trim(SubSeq(trimmed, eq + 1, Len(trimmed))))
    IN  IF trimmed = <<>> \/ trimmed[1] = "#" THEN env
        ELSE IF eq = 0 THEN env
        ELSE IF key \in DOMAIN env THEN env
        ELSE (key :> val) @@ env

RECURSIVE LoadLines(_, _)
LoadLines(env, lines) ==
    IF lines = <<>> THEN env ELSE LoadLines(LoadLine(env, Head(lines)), Tail(lines))

\* variant of missing: a variable set to the empty string counts as set
missingUnsetOnly(env) ==
    {i \in 1..Len(REQUIRED) : <<REQUIRED[i]>> \notin DOMAIN env}

\* REQUIRED.filter(k => !process.env[k]), as the set of the indices kept
missing(env) ==
    {i \in 1..Len(REQUIRED) : Get(env, <<REQUIRED[i]>>, <<>>) = <<>>}

REPLACEMENTS(env) ==
    ("__SUPABASE_URL__" :> env[<<"ADMIN_SUPABASE_URL">>])
    @@ ("__SUPABASE_ANON__" :> env[<<"ADMIN_SUPABASE_ANON">>])
    @@ ("__ADMIN_EMAIL__" :> env[<<"ADMIN_EMAIL">>])
    @@ ("__GH_REPO__" :> env[<<"ADMIN_GH_REPO">>])
    @@ ("__GH_BRANCH__" :> env[<<"ADMIN_GH_BRANCH">>])
    @@ ("__GH_WHITELIST_PATH__" :> env[<<"ADMIN_GH_WHITELIST_PATH">>])

\* for each entry of REPLACEMENTS, html.replaceAll(placeholder, value)
ReplaceAll(text, table) ==
    Concat([i \in 1..Len(text) |->
               IF text[i] \in DOMAIN table THEN table[text[i]] ELSE <<text[i]>>])

\* what process.env may hold of REQUIRED when the script starts: each
\* variable unset, empty or with a value, at most MaxUnset of them or all of
\* them without a value
StartEnvs ==
    {LoadLines(<<>>, [i \in 1..Len(REQUIRED) |->
                        IF given[i] = "unset" THEN <<>>
                        ELSE IF given[i] = "empty" THEN <<REQUIRED[i], "=">>
                        ELSE <<REQUIRED[i], "=", "v", "a", "l">>]) :
        given \in {g \in [1..Len(REQUIRED) -> {"unset", "empty", "value"}] :
                      \/ Cardinality({i \in 1..Len(REQUIRED) : g[i] # "value"}) <= MaxUnset
                      \/ \A i \in 1..Len(REQUIRED) : g[i] = "unset"}}

\* the ways .env.admin may write one variable
LineForms(k) ==
    {<<k, "=", "v">>,
     <<k, "=">>,
     <<k, "=", "\"", "\"">>,
     <<k, "=", "'">>,
     <<" ", k, " ", "=", " ", "\"", "v", "\"", " ">>,
     <<"#", k, "=", "v">>,
     <<k>>}

\* Array.prototype.join('\n')
RECURSIVE JoinLines(_)
JoinLines(lines) ==
    IF lines = <<>> THEN <<>>
    ELSE IF Len(lines) = 1 THEN Head(lines)
    ELSE Head(lines) \o <<"\n">> \o JoinLines(Tail(lines))

\* the texts .env.admin may hold: one variable written in one of the ways,
\* after a blank line, the other five written plainly or not at all
EnvFileTexts ==
    UNION {{JoinLines(SelectSeq([i \in 1..Len(REQUIRED) |->
                                    IF i = varied THEN <<>>
                                    ELSE IF rest THEN <<REQUIRED[i], "=", "v">>
                                    ELSE <<" ">>],
                                LAMBDA line : line # <<>>)
                      \o <<<<>>, form>>) :
               rest \in BOOLEAN, form \in LineForms(REQUIRED[varied])} :
           varied \in 1..Len(REQUIRED)}

\* the disks the script may start on: .env.admin there or not, the template
\* there or not, public/admin.html not generated yet
StartDisks ==
    {[files |-> envPart @@ templatePart, reads |-> {}, writes |-> {}] :
        envPart \in {<<>>} \cup {(envFile :> text) : text \in EnvFileTexts},
        templatePart \in {<<>>, (templatePath :> <<"<", "__ADMIN_EMAIL__", "__GH_REPO__", "__OTHER__", ">">>)}}

InitAdmin ==
    /\ FeedInit
    /\ currentPage = 1
    /\ call = NoCall
    /\ NavIdle
    /\ FetchIdle
    /\ processEnv \in StartEnvs
    /\ fs \in StartDisks
    /\ pc = "load"
    /\ html = <<>>
    /\ exitCode = 0

\* readFileSync(path, 'utf8')
readFileSync(disk, path) == [disk EXCEPT !.reads = @ \cup {path}]

\* writeFileSync(path, text, 'utf8')
writeFileSync(disk, path, text) ==
    [files |-> (path :> text) @@ disk.files, reads |-> disk.reads, writes |-> disk.writes \cup {path}]

\* process.exit(code)
exit(code) ==
    /\ pc' = "exited"
    /\ exitCode' = code

\* lines 37-49: load .env.admin when it is there
loadEnvFile ==
    /\ pc = "load"
    /\ IF existsSync(fs, envFile)
       THEN /\ fs' = readFileSync(fs, envFile)
            /\ processEnv' = LoadLines(processEnv, split(fs.files[envFile], "\n"))
       ELSE UNCHANGED <<fs, processEnv>>
    /\ pc' = "validate"
    /\ UNCHANGED <<feedVars, currentPage, call, navVars, fetchVars, html, exitCode>>

\* lines 61-67: exit with status 1 when a required variable is missing
validateRequired ==
    /\ pc = "validate"
    /\ IF missing(processEnv) # {} THEN exit(1)
       ELSE pc' = "template" /\ UNCHANGED exitCode
    /\ UNCHANGED <<feedVars, currentPage, call, navVars, fetchVars, processEnv, fs, html>>

\* lines 82-87: exit with status 1 without a template, else read it
readTemplate ==
    /\ pc = "template"
    /\ IF ~existsSync(fs, templatePath)
       THEN exit(1) /\ UNCHANGED <<fs, html>>
       ELSE /\ fs' = readFileSync(fs, templatePath)
            /\ html' = fs.files[templatePath]
            /\ pc' = "replace"
            /\ UNCHANGED exitCode
    /\ UNCHANGED <<feedVars, currentPage, call, navVars, fetchVars, processEnv>>

\* lines 89-100: replace the placeholders, write public/admin.html, end
writeOutput ==
    /\ pc = "replace"
    /\ \E replaced \in {ReplaceAll(html, REPLACEMENTS(processEnv))} :
          /\ html' = replaced
          /\ fs' = writeFileSync(fs, outputPath, replaced)
    /\ pc' = "done"
    /\ exitCode' = 0
    /\ UNCHANGED <<feedVars, currentPage, call, navVars, fetchVars, processEnv>>

NextAdmin == loadEnvFile \/ validateRequired \/ readTemplate \/ writeOutput

SpecAdmin == InitAdmin /\ [][NextAdmin]_vars

----------------------------------------------------------------------------
(* C28 *)

\* the required variables that process.env does not hold or holds as ''
UnsetOrEmpty ==
    {i \in 1..Len(REQUIRED) :
        <<REQUIRED[i]>> \notin DOMAIN processEnv \/ processEnv[<<REQUIRED[i]>>] = <<>>}

\* C28: once .env.admin has been loaded, a required variable that is unset
\* or empty makes the script exit with status 1: it ends nowhere else, the
\* template is never read and public/admin.html is never written.
MissingVariableExits ==
    (pc # "load" /\ UnsetOrEmpty # {}) =>
        /\ pc \in {"validate", "exited"}
        /\ pc = "exited" => exitCode = 1
        /\ templatePath \notin fs.reads
        /\ outputPath \notin fs.writes
        /\ ~existsSync(fs, outputPath)

\* the script has exited with status 1 with the template on the disk, after
\* reading a .env.admin that left one required variable empty and gave the
\* others a value
MissingVariableExitsWitness ==
    /\ pc = "exited"
    /\ exitCode = 1
    /\ envFile \in fs.reads
    /\ existsSync(fs, templatePath)
    /\ Cardinality(UnsetOrEmpty) = 1
    /\ \E i \in UnsetOrEmpty : <<REQUIRED[i]>> \in DOMAIN processEnv
=============================================================================
